---- MODULE Spec2Model ----
(***************************************************************************)
(* Model of debian_cloud_images/cli/build.py: the build-class accumulator  *)
(* (Classes), the configuration resolver (Check) and the build command     *)
(* (BuildCommand.__init__ / __call__).                                     *)
(*                                                                         *)
(* Strings are TLA+ strings (concatenated with \o, inspected with SubSeq); *)
(* a Python dict is a function whose DOMAIN is its key set; an object's    *)
(* attributes are a function from attribute names, so that reading an      *)
(* attribute that was never assigned is an AttributeError.                  *)
(***************************************************************************)
EXTENDS Integers, Sequences, FiniteSets, TLC

VARIABLES
    config_image,        \* registries read by BuildCommand.__init__ (archs, releases, vendors)
    args,                \* keyword arguments of BuildCommand.__init__
    strftime_pads_year,  \* platform: does strftime('%Y') zero-pad years below 1000
    pc,                  \* position in BuildCommand.__init__ / __call__ ("api": Check driven directly)
    locals,              \* locals of BuildCommand.__init__ / __call__ assigned so far
    self,                \* attributes of the BuildCommand object assigned so far
    classes,             \* Check.classes: Classes.__data, a list
    env,                 \* the dict created as Check.env
    info,                \* the dict created as Check.info
    attr,                \* the other attributes of the Check object assigned so far
    raised,              \* the exception the last operation raised, NoError if none
    calls,               \* the downstream invocations made by __call__, in order
    last,                \* history: the operation invoked last and its argument
    n_calls,             \* history: number of operations a direct client of Check has invoked
    stage                \* history: how many resolver operations were invoked in the documented order

vars == <<config_image, args, strftime_pads_year, pc, locals, self, classes, env,
          info, attr, raised, calls, last, n_calls, stage>>

inputvars == <<config_image, args, strftime_pads_year>>

(***************************************************************************)
(* Bounds of the model.                                                    *)
(***************************************************************************)
MaxTags == 2
MaxVersion == 11
MaxCalls == 5
MaxIdLen == 3

(***************************************************************************)
(* Python values.                                                          *)
(***************************************************************************)
None == [none |-> TRUE]
Str(s) == [str |-> s]
NoError == [exc |-> "none"]
Op(op, arg) == [op |-> op, arg |-> arg]
EmptyDict == <<>>

\* d[k] = v on a dict
Put(d, k, v) == [x \in (DOMAIN d) \cup {k} |-> IF x = k THEN v ELSE d[x]]

Range(s) == {s[i] : i \in 1..Len(s)}
Count(s, v) == Cardinality({i \in 1..Len(s) : s[i] = v})

\* dict.get(key) on a registry, kept as the ordered list of its items
RECURSIVE Get(_, _)
Get(items, key) ==
    IF items = <<>> THEN None
    ELSE IF Head(items).k = key THEN Head(items).v
    ELSE Get(Tail(items), key)

\* only the first key
JoinKeys_first(items) == IF items = <<>> THEN "" ELSE items[1].k

\* ", ".join(d): the keys in the dict's order
RECURSIVE JoinKeys(_)
JoinKeys(items) ==
    IF items = <<>> THEN ""
    ELSE IF Len(items) = 1 THEN Head(items).k
    ELSE Head(items).k \o ", " \o JoinKeys(Tail(items))

(***************************************************************************)
(* Formatting: str(int), strftime('%Y%m%d'), str.format.                   *)
(***************************************************************************)
Digit == <<"0", "1", "2", "3", "4", "5", "6", "7", "8", "9">>

\* str(n) for an int n >= 0
RECURSIVE IntToStr(_)
IntToStr(n) ==
    IF n < 10 THEN Digit[n + 1]
    ELSE IntToStr(n \div 10) \o Digit[(n % 10) + 1]

\* %m and %d: two digits, zero-padded
Pad2(n) == IF n < 10 THEN "0" \o IntToStr(n) ELSE IntToStr(n)

\* %Y: the year with century; the C library decides whether a year below
\* 1000 is zero-padded to four digits (glibc does not pad)
YearStr(y, pads) ==
    IF pads /\ y < 10 THEN "000" \o IntToStr(y)
    ELSE IF pads /\ y < 100 THEN "00" \o IntToStr(y)
    ELSE IF pads /\ y < 1000 THEN "0" \o IntToStr(y)
    ELSE IntToStr(y)

\* strftime with the day and the month exchanged ('%Y%d%m')
Strftime_Ydm(d, pads) == YearStr(d.year, pads) \o Pad2(d.day) \o Pad2(d.month)

\* version_date.strftime('%Y%m%d')
Strftime(d, pads) == YearStr(d.year, pads) \o Pad2(d.month) \o Pad2(d.day)

\* a format string is the list of its literal pieces and replacement fields
L(s) == [lit |-> s]
F(f) == [field |-> f]

\* template.format(**kw), kw holding each argument as format() renders it
RECURSIVE Format(_, _)
Format(template, kw) ==
    IF template = <<>> THEN ""
    ELSE LET p == Head(template)
         IN (IF "field" \in DOMAIN p THEN kw[p.field] ELSE p.lit)
              \o Format(Tail(template), kw)

(***************************************************************************)
(* BuildTypeEnum                                                           *)
(***************************************************************************)
\* the enum with dev's platform-specific template one component short ('0.{version!s}')
BuildTypeEnum_azure_short ==
    [dev |->
        [name |-> "dev",
         fai_classes |-> <<"TYPE_DEV">>,
         output_name |-> <<L("debian-"), F("release"), L("-"), F("vendor"), L("-"),
                           F("arch"), L("-"), F("build_type"), L("-"), F("build_id"),
                           L("-"), F("version")>>,
         output_version |-> <<F("version")>>,
         output_version_azure |-> <<L("0."), F("version")>>],
     official |->
        [name |-> "official",
         fai_classes |-> <<>>,
         output_name |-> <<L("debian-"), F("release"), L("-"), F("vendor"), L("-"),
                           F("arch"), L("-"), F("build_type"), L("-"), F("version")>>,
         output_version |-> <<F("date"), L("-"), F("version")>>,
         output_version_azure |-> <<L("0."), F("date"), L("."), F("version")>>]]

BuildTypeEnum ==
    [dev |->
        [name |-> "dev",
         fai_classes |-> <<"TYPE_DEV">>,
         output_name |-> <<L("debian-"), F("release"), L("-"), F("vendor"), L("-"),
                           F("arch"), L("-"), F("build_type"), L("-"), F("build_id"),
                           L("-"), F("version")>>,
         output_version |-> <<F("version")>>,
         output_version_azure |-> <<L("0.0."), F("version")>>],
     official |->
        [name |-> "official",
         fai_classes |-> <<>>,
         output_name |-> <<L("debian-"), F("release"), L("-"), F("vendor"), L("-"),
                           F("arch"), L("-"), F("build_type"), L("-"), F("version")>>,
         output_version |-> <<F("date"), L("-"), F("version")>>,
         output_version_azure |-> <<L("0."), F("date"), L("."), F("version")>>]]

(***************************************************************************)
(* BuildId: re.compile(r"^[a-z][a-z0-9-]+$").match(s)                      *)
(***************************************************************************)
Char(s, i) == SubSeq(s, i, i)
InChars(c, chars) == \E i \in 1..Len(chars) : Char(chars, i) = c

\* [a-z] and [a-z0-9-]
MatchesFirst(c) == InChars(c, "abcdefghijklmnopqrstuvwxyz")
MatchesRest(c) == InChars(c, "abcdefghijklmnopqrstuvwxyz0123456789-")

\* $ without re.MULTILINE: at the end of the string, and also just before a
\* newline that ends the string
AtDollar(s, e) ==
    \/ e = Len(s)
    \/ e = Len(s) - 1 /\ Char(s, Len(s)) = "\n"

\* the ends e at which the pattern matches s[1..e]
MatchEnds(s) ==
    {e \in 2..Len(s) :
        /\ MatchesFirst(Char(s, 1))
        /\ \A i \in 2..e : MatchesRest(Char(s, i))
        /\ AtDollar(s, e)}

\* re.match: None, or the match, whose group(0) is the text matched (the
\* greedy + takes the longest run the rest of the pattern allows)
ReMatch(s) ==
    IF MatchEnds(s) = {} THEN None
    ELSE Str(SubSeq(s, 1, CHOOSE e \in MatchEnds(s) : \A f \in MatchEnds(s) : f <= e))

\* BuildId.__init__: the object made, or the exception raised
BuildId(s) ==
    IF ReMatch(s) = None
    THEN [exc |-> "ValueError", message |-> "invalid build id value"]
    ELSE [id |-> ReMatch(s).str]

(***************************************************************************)
(* Classes: a MutableSet kept as a list                                    *)
(***************************************************************************)
\* an add that puts the value first
add_front(data, v) == <<v>> \o data

\* Classes.add
add(data, v) == Append(data, v)

\* a remove that takes the last occurrence
RemoveLast(data, v) ==
    LET i == CHOOSE j \in 1..Len(data) :
                 data[j] = v /\ \A k \in (j + 1)..Len(data) : data[k] # v
    IN SubSeq(data, 1, i - 1) \o SubSeq(data, i + 1, Len(data))

\* list.remove(v): the first occurrence goes; the caller checks v is present
RemoveFirst(data, v) ==
    LET i == CHOOSE j \in 1..Len(data) :
                 data[j] = v /\ \A k \in 1..(j - 1) : data[k] # v
    IN SubSeq(data, 1, i - 1) \o SubSeq(data, i + 1, Len(data))

\* __ior__ adding the values from the last to the first
RECURSIVE ior_reversed(_, _)
ior_reversed(data, it) ==
    IF it = <<>> THEN data
    ELSE ior_reversed(Append(data, it[Len(it)]), SubSeq(it, 1, Len(it) - 1))

\* MutableSet.__ior__ as used by self.classes |= ...: add every value, in order
RECURSIVE ior(_, _)
ior(data, it) ==
    IF it = <<>> THEN data
    ELSE ior(add(data, Head(it)), Tail(it))

(***************************************************************************)
(* Check: the resolver.  Each method is the whole method body; a method    *)
(* that reads an attribute which was never assigned raises AttributeError  *)
(* at that point, keeping the assignments made before it.                  *)
(***************************************************************************)
AttributeError == [exc |-> "AttributeError"]
ValueError == [exc |-> "ValueError"]

\* Check.__init__
Check_init ==
    /\ classes' = add(add(<<>>, "DEBIAN"), "CLOUD")
    /\ env' = EmptyDict
    /\ info' = EmptyDict
    /\ attr' = EmptyDict
    /\ raised' = NoError

\* Check.set_type
set_type(type) ==
    /\ attr' = Put(attr, "type", type)
    /\ info' = Put(info, "type", type.name)
    /\ classes' = ior(classes, type.fai_classes)
    /\ raised' = NoError
    /\ UNCHANGED env

\* Check.set_release
set_release(release) ==
    /\ attr' = Put(attr, "release", release)
    /\ info' = Put(Put(Put(info, "release", release.basename),
                       "release_id", release.id),
                   "release_baseid", release.baseid)
    /\ classes' = ior(classes, release.fai_classes)
    /\ raised' = NoError
    /\ UNCHANGED env

\* CLOUD_RELEASE_ID given the release's id instead of the vendor's name
set_vendor_release_id(vendor) ==
    /\ attr' = Put(attr, "vendor", vendor)
    /\ env' = Put(env, "CLOUD_RELEASE_ID", attr.release.id)
    /\ info' = Put(info, "vendor", vendor.name)
    /\ classes' = ior(classes, vendor.fai_classes)
    /\ raised' = NoError

\* Check.set_vendor
set_vendor(vendor) ==
    /\ attr' = Put(attr, "vendor", vendor)
    /\ env' = Put(env, "CLOUD_RELEASE_ID", vendor.name)
    /\ info' = Put(info, "vendor", vendor.name)
    /\ classes' = ior(classes, vendor.fai_classes)
    /\ raised' = NoError

\* Check.set_arch
set_arch(arch) ==
    /\ attr' = Put(attr, "arch", arch)
    /\ info' = Put(info, "arch", arch.name)
    /\ classes' = ior(classes, arch.fai_classes)
    /\ raised' = NoError
    /\ UNCHANGED env

\* the vendor test left out: the platform-specific version stored for every vendor
NeedsAzureVersion_always(vendor) == TRUE

\* the vendor test of set_version
NeedsAzureVersion(vendor) == vendor.name = "azure"

\* Check.set_version
set_version(version, version_date, build_id) ==
    LET a1 == Put(attr, "build_id", build_id.id)
        i1 == Put(info, "build_id", build_id.id)
    IN  /\ UNCHANGED classes
        /\ IF "type" \notin DOMAIN attr
           THEN /\ attr' = a1
                /\ info' = i1
                /\ UNCHANGED env
                /\ raised' = AttributeError
           ELSE LET kw == [version |-> IntToStr(version),
                           date |-> Strftime(version_date, strftime_pads_year)]
                    v == Format(attr.type.output_version, kw)
                    va == Format(attr.type.output_version_azure, kw)
                    a2 == Put(Put(a1, "version", v), "version_azure", va)
                    e2 == Put(env, "CLOUD_RELEASE_VERSION", v)
                    i2 == Put(i1, "version", v)
                IN  /\ attr' = a2
                    /\ IF "vendor" \notin DOMAIN attr
                       THEN /\ env' = e2
                            /\ info' = i2
                            /\ raised' = AttributeError
                       ELSE IF NeedsAzureVersion(attr.vendor)
                       THEN /\ env' = Put(e2, "CLOUD_RELEASE_VERSION_AZURE", va)
                            /\ info' = Put(i2, "version_azure", va)
                            /\ raised' = NoError
                       ELSE /\ env' = e2
                            /\ info' = i2
                            /\ raised' = NoError

\* the condition of Check.check, with the attributes it reads present
UseLinuxImageCloud(arch, release, vendor) ==
    /\ arch.name \in release.arch_supports_linux_image_cloud
    /\ vendor.use_linux_image_cloud

\* Check.check; "and" reads self.vendor only when its left operand is true
check ==
    /\ UNCHANGED <<env, info, attr>>
    /\ IF \/ "arch" \notin DOMAIN attr
          \/ "release" \notin DOMAIN attr
          \/ /\ attr.arch.name \in attr.release.arch_supports_linux_image_cloud
             /\ "vendor" \notin DOMAIN attr
       THEN /\ UNCHANGED classes
            /\ raised' = AttributeError
       ELSE /\ classes' =
                 add(add(classes,
                         IF /\ "vendor" \in DOMAIN attr
                            /\ UseLinuxImageCloud(attr.arch, attr.release, attr.vendor)
                         THEN "LINUX_IMAGE_CLOUD"
                         ELSE "LINUX_IMAGE_BASE"),
                     "LAST")
            /\ raised' = NoError

(***************************************************************************)
(* The registries' objects (config_image) and the command's arguments.     *)
(***************************************************************************)
Release(n, fai, supports) ==
    [name |-> n, basename |-> n, id |-> "12", baseid |-> "12",
     fai_classes |-> fai, arch_supports_linux_image_cloud |-> supports]
Vendor(n, fai, use) ==
    [name |-> n, fai_classes |-> fai, size |-> 2, use_linux_image_cloud |-> use]
Arch(n, fai) == [name |-> n, fai_classes |-> fai]
Item(key, value) == [k |-> key, v |-> value]

\* argparse.ArgumentError(argument, 'invalid value: ..., select one of ...')
ArgumentError(argument, value, items) ==
    [exc |-> "ArgumentError", argument |-> argument,
     message |-> "invalid value: " \o value \o ", select one of " \o JoinKeys(items)]

\* the keys of Check.info in the order the command inserts them
InfoKeys == <<"type", "release", "release_id", "release_baseid", "vendor", "arch",
              "build_id", "version", "version_azure">>

\* json.dumps of a dict of strings: the items in insertion order
RECURSIVE JsonItems(_, _, _)
JsonItems(d, keys, first) ==
    IF keys = <<>> THEN ""
    ELSE IF Head(keys) \notin DOMAIN d THEN JsonItems(d, Tail(keys), first)
    ELSE (IF first THEN "" ELSE ", ")
           \o "\"" \o Head(keys) \o "\": \"" \o d[Head(keys)] \o "\""
           \o JsonItems(d, Tail(keys), FALSE)
JsonDumps(d) == "{" \o JsonItems(d, InfoKeys, TRUE) \o "}"

\* an or that never takes its left operand
Truthy_never(x) == FALSE

\* x or y on an optional string: None and '' are false
Truthy(x) == x # None /\ x.str # ""

(***************************************************************************)
(* BuildCommand.__init__, one action per statement group, and __call__.    *)
(***************************************************************************)
cmdonly == <<locals, self, calls>>
history == <<n_calls, stage>>

\* where __init__ goes after a resolver call: an exception leaves __init__
After(next) == IF raised' = NoError THEN next ELSE "failed"

\* lines 227-246: the three registry lookups and their checks
Lookup ==
    /\ pc = "lookup"
    /\ LET arch == Get(config_image.archs, args.arch_name)
           release == Get(config_image.releases, args.release_name)
           vendor == Get(config_image.vendors, args.vendor_name)
       IN  /\ locals' = [arch |-> arch, release |-> release, vendor |-> vendor]
           /\ raised' =
                IF arch = None
                THEN ArgumentError("ARCH", args.arch_name, config_image.archs)
                ELSE IF vendor = None
                THEN ArgumentError("VENDOR", args.vendor_name, config_image.vendors)
                ELSE IF release = None
                THEN ArgumentError("RELEASE", args.release_name, config_image.releases)
                ELSE NoError
    /\ self' = IF raised' = NoError THEN Put(self, "noop", args.noop) ELSE self
    /\ pc' = After("new_check")
    /\ last' = Op("lookup", None)
    /\ UNCHANGED <<inputvars, classes, env, info, attr, calls, history>>

\* line 248
NewCheck ==
    /\ pc = "new_check"
    /\ Check_init
    /\ pc' = "set_type"
    /\ last' = Op("Check", None)
    /\ UNCHANGED <<inputvars, cmdonly, history>>

\* line 249
CallSetType ==
    /\ pc = "set_type"
    /\ set_type(args.build_type)
    /\ pc' = After("set_release")
    /\ last' = Op("set_type", args.build_type)
    /\ UNCHANGED <<inputvars, cmdonly, history>>

\* line 250
CallSetRelease ==
    /\ pc = "set_release"
    /\ set_release(locals.release)
    /\ pc' = After("set_vendor")
    /\ last' = Op("set_release", locals.release)
    /\ UNCHANGED <<inputvars, cmdonly, history>>

\* line 251
CallSetVendor ==
    /\ pc = "set_vendor"
    /\ set_vendor(locals.vendor)
    /\ pc' = After("set_arch")
    /\ last' = Op("set_vendor", locals.vendor)
    /\ UNCHANGED <<inputvars, cmdonly, history>>

\* line 252
CallSetArch ==
    /\ pc = "set_arch"
    /\ set_arch(locals.arch)
    /\ pc' = After("set_version")
    /\ last' = Op("set_arch", locals.arch)
    /\ UNCHANGED <<inputvars, cmdonly, history>>

\* line 253
CallSetVersion ==
    /\ pc = "set_version"
    /\ set_version(args.version, args.version_date, args.build_id)
    /\ pc' = After("localdebs")
    /\ last' = Op("set_version", <<args.version, args.version_date, args.build_id>>)
    /\ UNCHANGED <<inputvars, cmdonly, history>>

\* the add made whatever the localdebs argument is
AddLocalDebs_always ==
    /\ pc = "localdebs"
    /\ classes' = add(classes, "LOCALDEBS")
    /\ pc' = "check"
    /\ last' = Op("localdebs", args.localdebs)
    /\ UNCHANGED <<inputvars, cmdonly, env, info, attr, raised, history>>

\* lines 254-255
AddLocalDebs ==
    /\ pc = "localdebs"
    /\ classes' = IF args.localdebs THEN add(classes, "LOCALDEBS") ELSE classes
    /\ pc' = "check"
    /\ last' = Op("localdebs", args.localdebs)
    /\ UNCHANGED <<inputvars, cmdonly, env, info, attr, raised, history>>

\* line 256
CallCheck ==
    /\ pc = "check"
    /\ check
    /\ pc' = After("name")
    /\ last' = Op("check", None)
    /\ UNCHANGED <<inputvars, cmdonly, history>>

\* the name formatted with the official template whatever the build type
OutputName_official_template ==
    IF args.override_name # None /\ args.override_name.str # ""
    THEN args.override_name.str
    ELSE Format(<<L("debian-"), F("release"), L("-"), F("vendor"), L("-"), F("arch"),
                  L("-"), F("build_type"), L("-"), F("version")>>,
                [build_type |-> attr.type.name,
                 release |-> attr.release.name,
                 vendor |-> attr.vendor.name,
                 arch |-> attr.arch.name,
                 version |-> attr.version,
                 build_id |-> attr.build_id])

\* lines 258-265
OutputName ==
    IF Truthy(args.override_name)
    THEN args.override_name.str
    ELSE Format(attr.type.output_name,
                [build_type |-> attr.type.name,
                 release |-> attr.release.name,
                 vendor |-> attr.vendor.name,
                 arch |-> attr.arch.name,
                 version |-> attr.version,
                 build_id |-> attr.build_id])

ComputeName ==
    /\ pc = "name"
    /\ locals' = Put(locals, "name", OutputName)
    /\ pc' = "handoff"
    /\ last' = Op("name", None)
    /\ UNCHANGED <<inputvars, self, classes, env, info, attr, raised, calls, history>>

\* lines 267-271: self.env is bound to the dict that is Check.env, so the
\* four item assignments that follow are made on that dict
Handoff ==
    /\ pc = "handoff"
    /\ self' = Put(self, "env", "c.env")
    /\ env' = Put(Put(Put(Put(env, "CLOUD_BUILD_INFO", JsonDumps(info)),
                          "CLOUD_BUILD_NAME", locals.name),
                      "CLOUD_BUILD_OUTPUT_DIR", "<output>"),
                  "CLOUD_BUILD_DATA", "<data_path>")
    /\ pc' = "construct"
    /\ last' = Op("handoff", None)
    /\ UNCHANGED <<inputvars, locals, classes, info, attr, raised, calls, history>>

\* lines 273-296: the collaborators are constructed; they are handed the
\* Classes object, the env dict and the info dict themselves, not copies
Construct ==
    /\ pc = "construct"
    /\ self' = Put(Put(Put(self,
                 "fai", [output_filename |-> locals.name \o ".raw",
                         classes |-> "c.classes",
                         size_gb |-> attr.vendor.size,
                         env |-> self.env]),
                 "tar", [input_filename |-> locals.name \o ".raw",
                         output_filename |-> locals.name \o ".tar"]),
                 "manifest", [input_filename |-> locals.name \o ".build-fai.json",
                              output_filename |-> locals.name \o ".build.json",
                              info |-> "c.info"])
    /\ pc' = "fai"
    /\ last' = Op("construct", None)
    /\ UNCHANGED <<inputvars, locals, classes, env, info, attr, raised, calls, history>>

Digests == {"sha-a", "sha-b"}
DownstreamError(step) == [exc |-> "DownstreamError", step |-> step]

\* the builder's exception swallowed
CallFai_ignore_failure ==
    /\ pc = "fai"
    /\ \E ok \in BOOLEAN :
         /\ calls' = Append(calls, [step |-> "fai", run |-> ~self.noop,
                                    classes |-> classes, env |-> env])
         /\ raised' = IF ok THEN NoError ELSE DownstreamError("fai")
         /\ pc' = "tar"
    /\ last' = Op("fai", None)
    /\ UNCHANGED <<inputvars, locals, self, classes, env, info, attr, history>>

\* line 299: the builder runs and returns, or raises
CallFai ==
    /\ pc = "fai"
    /\ \E ok \in BOOLEAN :
         /\ calls' = Append(calls, [step |-> "fai", run |-> ~self.noop,
                                    classes |-> classes, env |-> env])
         /\ raised' = IF ok THEN NoError ELSE DownstreamError("fai")
         /\ pc' = After("tar")
    /\ last' = Op("fai", None)
    /\ UNCHANGED <<inputvars, locals, self, classes, env, info, attr, history>>

\* line 300: packaging runs and returns a digest, or raises
CallTar ==
    /\ pc = "tar"
    /\ \E ok \in BOOLEAN, d \in Digests :
         /\ calls' = Append(calls, [step |-> "tar", run |-> ~self.noop,
                                    returned |-> IF ok THEN Str(d) ELSE None])
         /\ raised' = IF ok THEN NoError ELSE DownstreamError("tar")
         /\ locals' = IF ok THEN Put(locals, "digest", d) ELSE locals
         /\ pc' = After("manifest")
    /\ last' = Op("tar", None)
    /\ UNCHANGED <<inputvars, self, classes, env, info, attr, history>>

\* line 301: the manifest step is given the digest, or raises
CallManifest ==
    /\ pc = "manifest"
    /\ \E ok \in BOOLEAN :
         /\ calls' = Append(calls, [step |-> "manifest", run |-> ~self.noop,
                                    digests |-> <<locals.digest>>, info |-> info])
         /\ raised' = IF ok THEN NoError ELSE DownstreamError("manifest")
         /\ pc' = After("done")
    /\ last' = Op("manifest", None)
    /\ UNCHANGED <<inputvars, locals, self, classes, env, info, attr, history>>

(***************************************************************************)
(* A client that drives a Check object directly, in any order.             *)
(***************************************************************************)
\* the order BuildCommand.__init__ invokes the resolver's operations in
StageOps == <<"set_type", "set_release", "set_vendor", "set_arch", "set_version", "check">>

ApiTypes == {BuildTypeEnum.dev, BuildTypeEnum.official}
ApiReleases == {Release("bookworm", <<"BOOKWORM">>, {"amd64"})}
ApiVendors == {Vendor("azure", <<"AZURE">>, TRUE), Vendor("ec2", <<"EC2">>, FALSE)}
ApiArchs == {Arch("amd64", <<"AMD64">>)}
ApiTags == {"DEBIAN", "LOCALDEBS"}
ApiDate == [year |-> 2024, month |-> 5, day |-> 1]
ApiBuildId == [id |-> "test-1"]

ApiCall(op, arg) ==
    /\ pc = "api"
    /\ n_calls < MaxCalls
    /\ n_calls' = n_calls + 1
    /\ last' = Op(op, arg)
    /\ stage' = IF stage < Len(StageOps) /\ StageOps[stage + 1] = op
                THEN stage + 1 ELSE stage
    /\ UNCHANGED <<inputvars, pc, cmdonly>>

ApiSetType == \E t \in ApiTypes : ApiCall("set_type", t) /\ set_type(t)
ApiSetRelease == \E r \in ApiReleases : ApiCall("set_release", r) /\ set_release(r)
ApiSetVendor == \E v \in ApiVendors : ApiCall("set_vendor", v) /\ set_vendor(v)
ApiSetArch == \E a \in ApiArchs : ApiCall("set_arch", a) /\ set_arch(a)
ApiSetVersion ==
    /\ ApiCall("set_version", <<7, ApiDate, ApiBuildId>>)
    /\ set_version(7, ApiDate, ApiBuildId)
ApiCheck == ApiCall("check", None) /\ check

\* Classes.add called on Check.classes
ApiAdd ==
    \E v \in ApiTags :
        /\ ApiCall("add", v)
        /\ classes' = add(classes, v)
        /\ raised' = NoError
        /\ UNCHANGED <<env, info, attr>>

\* Classes.discard called on Check.classes: list.remove raises ValueError
\* when the value is absent
ApiDiscard ==
    \E v \in ApiTags :
        /\ ApiCall("discard", v)
        /\ classes' = IF v \in Range(classes) THEN RemoveFirst(classes, v) ELSE classes
        /\ raised' = IF v \in Range(classes) THEN NoError ELSE ValueError
        /\ UNCHANGED <<env, info, attr>>

(***************************************************************************)
(* The argument parser converting --build-id with type=BuildId.            *)
(***************************************************************************)
ParseBuildId ==
    /\ pc = "build_id"
    /\ IF "id" \in DOMAIN BuildId(args.build_id_arg)
       THEN /\ args' = Put(args, "build_id", BuildId(args.build_id_arg))
            /\ raised' = NoError
            /\ pc' = "parsed"
       ELSE /\ raised' = BuildId(args.build_id_arg)
            /\ pc' = "failed"
            /\ UNCHANGED args
    /\ last' = Op("BuildId", Str(args.build_id_arg))
    /\ UNCHANGED <<config_image, strftime_pads_year, cmdonly, classes, env, info, attr, history>>

(***************************************************************************)
(* Inputs.                                                                 *)
(***************************************************************************)
\* the class tags a release, vendor or architecture of the configuration may carry
\* (they come from the configuration files, which may name any tag)
DimTags == {"EXTRAS", "LAST", "LINUX_IMAGE_BASE"}
\* a dimension's fai_classes: up to MaxTags tags, none repeated, in its own order
TagLists ==
    {l \in UNION {[1..n -> DimTags] : n \in 0..MaxTags} :
        \A i, j \in 1..Len(l) : i # j => l[i] # l[j]}

Config(rfai, vfai, afai, supports, use) ==
    [archs |-> <<Item("amd64", Arch("amd64", afai)),
                 Item("arm64", Arch("arm64", <<"ARM64">>))>>,
     releases |-> <<Item("bookworm", Release("bookworm", rfai, supports))>>,
     vendors |-> <<Item("azure", Vendor("azure", vfai, use)),
                   Item("ec2", Vendor("ec2", <<"EC2">>, FALSE))>>]

DefaultConfig == Config(<<"BOOKWORM">>, <<"AZURE">>, <<"AMD64">>, {"amd64"}, TRUE)

Dates == {[year |-> 2024, month |-> 5, day |-> 1],
          [year |-> 2024, month |-> 12, day |-> 31],
          [year |-> 1000, month |-> 10, day |-> 9],
          [year |-> 999, month |-> 1, day |-> 2]}

NameChoices == {<<"bookworm", "azure", "amd64">>,
                <<"bookworm", "ec2", "arm64">>,
                <<"trixie", "azure", "amd64">>,
                <<"bookworm", "gce", "amd64">>,
                <<"bookworm", "azure", "riscv64">>,
                <<"trixie", "gce", "riscv64">>}

Args(names, type, version, date, localdebs, override) ==
    [release_name |-> names[1], vendor_name |-> names[2], arch_name |-> names[3],
     version |-> version, build_id |-> [id |-> "test-1"], build_type |-> type,
     localdebs |-> localdebs, noop |-> FALSE, override_name |-> override,
     version_date |-> date]

\* the state when BuildCommand.__init__ is entered
Start(config, a, pads) ==
    /\ config_image = config
    /\ args = a
    /\ strftime_pads_year = pads
    /\ pc = "lookup"
    /\ locals = EmptyDict
    /\ self = EmptyDict
    /\ classes = <<>>
    /\ env = EmptyDict
    /\ info = EmptyDict
    /\ attr = EmptyDict
    /\ raised = NoError
    /\ calls = <<>>
    /\ last = Op("start", None)
    /\ n_calls = 0
    /\ stage = 0

\* every configuration of class tags, one version
Init ==
    \/ \E rfai \in TagLists, vfai \in TagLists, afai \in TagLists,
          supports \in {{}, {"amd64"}}, use \in BOOLEAN,
          t \in ApiTypes, localdebs \in BOOLEAN :
         Start(Config(rfai, vfai, afai, supports, use),
               Args(<<"bookworm", "azure", "amd64">>, t, 42, ApiDate, localdebs, None),
               FALSE)
    \/ \E names \in NameChoices :
         Start(DefaultConfig, Args(names, BuildTypeEnum.dev, 42, ApiDate, FALSE, None), FALSE)

\* the --override-name argument: absent, empty, plain, and one that looks
\* like a template
Overrides == {None, Str(""), Str("custom"), Str("img-{version}")}

\* every version, date and platform, one configuration of class tags
InitVersion ==
    \E names \in NameChoices, t \in ApiTypes, version \in 0..MaxVersion \cup {42},
       date \in Dates, pads \in BOOLEAN, override \in Overrides :
         Start(DefaultConfig, Args(names, t, version, date, FALSE, override), pads)

\* a Check object just constructed, in the hands of a direct client
InitApi ==
    /\ config_image = DefaultConfig
    /\ args = Args(<<"bookworm", "azure", "amd64">>, BuildTypeEnum.dev, 7, ApiDate, FALSE, None)
    /\ strftime_pads_year = FALSE
    /\ pc = "api"
    /\ locals = EmptyDict
    /\ self = EmptyDict
    /\ classes = <<"DEBIAN", "CLOUD">>
    /\ env = EmptyDict
    /\ info = EmptyDict
    /\ attr = EmptyDict
    /\ raised = NoError
    /\ calls = <<>>
    /\ last = Op("Check", None)
    /\ n_calls = 0
    /\ stage = 0

\* the characters build id arguments are made of here: in and out of each
\* character class of the pattern, and the newline
IdAlphabet == {"a", "z", "0", "-", "A", "\n"}

RECURSIVE StringsOfLen(_)
StringsOfLen(n) ==
    IF n = 0 THEN {""}
    ELSE {s \o c : s \in StringsOfLen(n - 1), c \in IdAlphabet}

\* the argument parser about to convert a --build-id argument
InitBuildId ==
    /\ config_image = DefaultConfig
    /\ \E n \in 0..MaxIdLen : \E s \in StringsOfLen(n) : args = [build_id_arg |-> s]
    /\ strftime_pads_year = FALSE
    /\ pc = "build_id"
    /\ locals = EmptyDict
    /\ self = EmptyDict
    /\ classes = <<>>
    /\ env = EmptyDict
    /\ info = EmptyDict
    /\ attr = EmptyDict
    /\ raised = NoError
    /\ calls = <<>>
    /\ last = Op("start", None)
    /\ n_calls = 0
    /\ stage = 0

Next ==
    \/ Lookup
    \/ NewCheck
    \/ CallSetType
    \/ CallSetRelease
    \/ CallSetVendor
    \/ CallSetArch
    \/ CallSetVersion
    \/ AddLocalDebs
    \/ CallCheck
    \/ ComputeName
    \/ Handoff
    \/ Construct
    \/ CallFai
    \/ CallTar
    \/ CallManifest

NextApi ==
    \/ ApiSetType
    \/ ApiSetRelease
    \/ ApiSetVendor
    \/ ApiSetArch
    \/ ApiSetVersion
    \/ ApiCheck
    \/ ApiAdd
    \/ ApiDiscard

Spec == Init /\ [][Next]_vars
SpecVersion == InitVersion /\ [][Next]_vars
SpecApi == InitApi /\ [][NextApi]_vars
SpecBuildId == InitBuildId /\ [][ParseBuildId]_vars

(***************************************************************************)
(* Properties.                                                             *)
(***************************************************************************)
\* check() has returned in BuildCommand.__init__
Finalized == pc \in {"name", "handoff", "construct", "fai", "tar", "manifest", "done"}

\* the objects the command resolves, read from its inputs
InArch == Get(config_image.archs, args.arch_name)
InRelease == Get(config_image.releases, args.release_name)
InVendor == Get(config_image.vendors, args.vendor_name)

\* the image-variant tag the inputs call for
InVariant ==
    IF /\ InArch.name \in InRelease.arch_supports_linux_image_cloud
       /\ InVendor.use_linux_image_cloud
    THEN "LINUX_IMAGE_CLOUD"
    ELSE "LINUX_IMAGE_BASE"

\* C1: after set_type, set_release, set_vendor, set_arch, set_version, the
\* optional LOCALDEBS add and check(), the class sequence starts with DEBIAN,
\* CLOUD, ends with LAST, and LAST occurs exactly once in it.
C1_BaseTagsAndSingleLast ==
    Finalized =>
        /\ Len(classes) >= 3
        /\ classes[1] = "DEBIAN"
        /\ classes[2] = "CLOUD"
        /\ classes[Len(classes)] = "LAST"
        /\ Count(classes, "LAST") = 1

\* C2: after check() exactly one of LINUX_IMAGE_CLOUD and LINUX_IMAGE_BASE is
\* in the class sequence, once: LINUX_IMAGE_CLOUD iff the architecture is in
\* the release's arch_supports_linux_image_cloud and the vendor's
\* use_linux_image_cloud is true, LINUX_IMAGE_BASE otherwise.
C2_ExactlyOneImageVariant ==
    Finalized =>
        /\ Count(classes, InVariant) = 1
        /\ Count(classes, IF InVariant = "LINUX_IMAGE_CLOUD"
                          THEN "LINUX_IMAGE_BASE"
                          ELSE "LINUX_IMAGE_CLOUD") = 0

\* C3: Classes.add of a tag that is already in the accumulator leaves the
\* sequence as it was.
C3_AddPresentIsNoOp ==
    [][(last'.op = "add" /\ n_calls' = n_calls + 1 /\ last'.arg \in Range(classes))
          => classes' = classes]_vars

\* C4: in every state of the resolver no class tag occurs more than once in
\* the class sequence.
C4_NoDuplicateTags ==
    \A i, j \in 1..Len(classes) : i # j => classes[i] # classes[j]

\* some position of a precedes some position of b in s
Precedes(s, a, b) == \E p, q \in 1..Len(s) : p < q /\ s[p] = a /\ s[q] = b

\* the contributions of the dimensions, in the documented order
InContributions ==
    <<args.build_type.fai_classes, InRelease.fai_classes,
      InVendor.fai_classes, InArch.fai_classes>>

\* C5: the finalized class sequence is DEBIAN, CLOUD, then the tags of the
\* build type, of the release, of the vendor and of the architecture, each in
\* its own order, then LOCALDEBS if requested, then the image-variant tag, then
\* LAST; a tag of an earlier dimension precedes a tag of a later one.
C5_ContributionOrder ==
    Finalized =>
        /\ classes = <<"DEBIAN", "CLOUD">>
                       \o InContributions[1] \o InContributions[2]
                       \o InContributions[3] \o InContributions[4]
                       \o (IF args.localdebs THEN <<"LOCALDEBS">> ELSE <<>>)
                       \o <<InVariant, "LAST">>
        /\ \A d1, d2 \in 1..4 :
              d1 < d2 =>
                 \A a \in Range(InContributions[d1]), b \in Range(InContributions[d2]) :
                    Precedes(classes, a, b)

\* a finalized build in which every dimension contributes, the release two
\* tags, and localdebs was requested
C5_Witness ==
    /\ pc = "name"
    /\ args.localdebs
    /\ args.build_type.name = "dev"
    /\ Len(InRelease.fai_classes) = 2
    /\ Len(InVendor.fai_classes) = 1
    /\ Len(InArch.fai_classes) = 1
    /\ Len(classes) = 10

\* C6: each of set_type, set_release, set_vendor, set_arch, set_version and
\* check is accepted only as the next operation of that order; a call made out
\* of order fails with an error and changes neither the classes, nor the
\* environment, nor the metadata.
C6_OutOfOrderCallsFail ==
    [][(n_calls' = n_calls + 1 /\ last'.op \in Range(StageOps))
          => IF stage' = stage + 1
             THEN raised' = NoError
             ELSE /\ raised' # NoError
                  /\ classes' = classes
                  /\ env' = env
                  /\ info' = info]_vars

\* C7: once check() has returned, no later step of the build changes the
\* resolver's class sequence, its environment mapping or its metadata mapping.
C7_ReadOnlyAfterCheck ==
    [][Finalized => (classes' = classes /\ env' = env /\ info' = info)]_vars

\* reading a string back: its digits, the number it denotes
DigitValue(c) == CHOOSE n \in 0..9 : SubSeq("0123456789", n + 1, n + 1) = c
AllDigits(s) ==
    /\ Len(s) > 0
    /\ \A i \in 1..Len(s) :
          \E n \in 0..9 : SubSeq("0123456789", n + 1, n + 1) = SubSeq(s, i, i)
RECURSIVE StrToInt(_)
StrToInt(s) ==
    IF Len(s) = 0 THEN 0
    ELSE 10 * StrToInt(SubSeq(s, 1, Len(s) - 1)) + DigitValue(SubSeq(s, Len(s), Len(s)))

\* s is the decimal rendering of n: digits only, no leading zero
IsDecimalOf(s, n) ==
    /\ AllDigits(s)
    /\ Len(s) = 1 \/ SubSeq(s, 1, 1) # "0"
    /\ StrToInt(s) = n

\* s is the date d as YYYYMMDD
IsDate8(s, d) ==
    /\ Len(s) = 8
    /\ AllDigits(s)
    /\ StrToInt(SubSeq(s, 1, 4)) = d.year
    /\ StrToInt(SubSeq(s, 5, 6)) = d.month
    /\ StrToInt(SubSeq(s, 7, 8)) = d.day

\* set_version has returned
VersionComputed == "version" \in DOMAIN attr

\* the version string the claim expects of a build type
IsVersionOf(s, type, n, d) ==
    IF type = "dev"
    THEN IsDecimalOf(s, n)
    ELSE /\ Len(s) >= 10
         /\ IsDate8(SubSeq(s, 1, 8), d)
         /\ SubSeq(s, 9, 9) = "-"
         /\ IsDecimalOf(SubSeq(s, 10, Len(s)), n)

VersionStored ==
    /\ "CLOUD_RELEASE_VERSION" \in DOMAIN env
    /\ "version" \in DOMAIN info
    /\ env["CLOUD_RELEASE_VERSION"] = info["version"]
    /\ IsVersionOf(info["version"], args.build_type.name, args.version, args.version_date)

IsAzureVersionOf(s, type, n, d) ==
    /\ Cardinality({i \in 1..Len(s) : SubSeq(s, i, i) = "."}) = 2
    /\ IF type = "dev"
       THEN /\ Len(s) >= 5
            /\ SubSeq(s, 1, 4) = "0.0."
            /\ IsDecimalOf(SubSeq(s, 5, Len(s)), n)
       ELSE /\ Len(s) >= 12
            /\ SubSeq(s, 1, 2) = "0."
            /\ IsDate8(SubSeq(s, 3, 10), d)
            /\ SubSeq(s, 11, 11) = "."
            /\ IsDecimalOf(SubSeq(s, 12, Len(s)), n)

AzureVersionComputed ==
    /\ "version_azure" \in DOMAIN attr
    /\ IsAzureVersionOf(attr["version_azure"], args.build_type.name,
                        args.version, args.version_date)

ThreeNumericComponents(s) ==
    \E p1, p2 \in 1..Len(s) :
        /\ p1 < p2
        /\ SubSeq(s, p1, p1) = "."
        /\ SubSeq(s, p2, p2) = "."
        /\ AllDigits(SubSeq(s, 1, p1 - 1))
        /\ AllDigits(SubSeq(s, p1 + 1, p2 - 1))
        /\ AllDigits(SubSeq(s, p2 + 1, Len(s)))

C10_AzureKeysOnlyForAzure ==
    LET inEnv == "CLOUD_RELEASE_VERSION_AZURE" \in DOMAIN env
        inInfo == "version_azure" \in DOMAIN info
    IN  /\ VersionComputed =>
              /\ inEnv <=> args.vendor_name = "azure"
              /\ inInfo <=> args.vendor_name = "azure"
              /\ inEnv => env["CLOUD_RELEASE_VERSION_AZURE"] = attr["version_azure"]
              /\ inInfo => info["version_azure"] = attr["version_azure"]
        /\ args.vendor_name # "azure" => ~inEnv /\ ~inInfo

\* an official azure build that ran to its end with both keys stored
C10_Witness ==
    /\ pc = "done"
    /\ args.vendor_name = "azure"
    /\ args.build_type.name = "official"
    /\ env["CLOUD_RELEASE_VERSION_AZURE"] = "0.20241231.7"
    /\ info["version_azure"] = "0.20241231.7"

(***************************************************************************)
(* C11 (lines 54-63)                                                       *)
(***************************************************************************)
\* the whole of s is one lowercase letter followed by one or more lowercase
\* letters, digits or hyphens
IsWellFormedId(s) ==
    /\ Len(s) >= 2
    /\ MatchesFirst(Char(s, 1))
    /\ \A i \in 2..Len(s) : MatchesRest(Char(s, i))

\* C11: BuildId accepts a string exactly when the whole string is a lowercase
\* letter followed by one or more lowercase letters, digits or hyphens, and
\* on acceptance the stored id is the input string unchanged; every other
\* string (a leading digit, uppercase, a single letter, a valid id followed
\* by a newline) is rejected with ValueError.
C11_BuildIdValidation ==
    pc \in {"parsed", "failed"} =>
        /\ pc = "parsed" <=> IsWellFormedId(args.build_id_arg)
        /\ pc = "parsed" => args.build_id.id = args.build_id_arg
        /\ pc = "failed" => raised.exc = "ValueError"

(***************************************************************************)
(* C12 (lines 253-256)                                                     *)
(***************************************************************************)
\* s without its k-th element
RemoveAt(s, k) == SubSeq(s, 1, k - 1) \o SubSeq(s, k + 1, Len(s))

\* what the same inputs yield when localdebs is not requested
WithoutLocalDebs ==
    <<"DEBIAN", "CLOUD">>
        \o InContributions[1] \o InContributions[2]
        \o InContributions[3] \o InContributions[4]
        \o <<InVariant, "LAST">>

\* the position after DEBIAN, CLOUD and every tag a dimension contributed
AfterDimensions ==
    2 + Len(InContributions[1]) + Len(InContributions[2])
      + Len(InContributions[3]) + Len(InContributions[4]) + 1

\* C12: with localdebs the finalized sequence is the sequence of the same
\* build without localdebs plus exactly one element, LOCALDEBS, which sits
\* after every tag the dimensions contributed and before the closing LAST;
\* without localdebs the resolver adds no LOCALDEBS.
C12_LocalDebsTag ==
    Finalized =>
        IF args.localdebs
        THEN /\ Len(classes) = Len(WithoutLocalDebs) + 1
             /\ classes[AfterDimensions] = "LOCALDEBS"
             /\ RemoveAt(classes, AfterDimensions) = WithoutLocalDebs
             /\ AfterDimensions < Len(classes)
             /\ classes[Len(classes)] = "LAST"
        ELSE /\ classes = WithoutLocalDebs
             /\ Count(classes, "LOCALDEBS") = 0

\* an official build with localdebs whose vendor contributes two tags
C12_Witness ==
    /\ pc = "done"
    /\ args.localdebs
    /\ args.build_type.name = "official"
    /\ InVendor.fai_classes = <<"EXTRAS", "LAST">>
    /\ InRelease.fai_classes = <<>>
    /\ InArch.fai_classes = <<"EXTRAS">>
    /\ classes[6] = "LOCALDEBS"
    /\ Len(classes) = 8

(***************************************************************************)
(* C13, C14 (lines 258-269, 33-51)                                         *)
(***************************************************************************)
\* the environment handoff has been made
NameHandedOff == "CLOUD_BUILD_NAME" \in DOMAIN env

\* C13 as stated: whenever an override name is supplied, the empty string
\* included, CLOUD_BUILD_NAME is the override verbatim.
C13_OverrideAnyString ==
    (NameHandedOff /\ args.override_name # None) =>
        env["CLOUD_BUILD_NAME"] = args.override_name.str

\* C13: whenever a non-empty override name is supplied, the name computed and
\* CLOUD_BUILD_NAME are the override verbatim, whatever the build type, and
\* the template is not rendered into them.
C13_OverrideVerbatim ==
    (NameHandedOff /\ args.override_name # None /\ args.override_name.str # "") =>
        /\ env["CLOUD_BUILD_NAME"] = args.override_name.str
        /\ locals.name = args.override_name.str

\* an official build handed off under an override that looks like a template
C13_Witness ==
    /\ pc = "construct"
    /\ args.build_type.name = "official"
    /\ args.override_name = Str("img-{version}")
    /\ env["CLOUD_BUILD_NAME"] = "img-{version}"

\* the name the claim expects when the version string is vs
ExpectedName(vs) ==
    "debian-" \o InRelease.name \o "-" \o InVendor.name \o "-" \o InArch.name \o "-"
       \o (IF args.build_type.name = "dev"
           THEN "dev-" \o args.build_id.id \o "-"
           ELSE "official-")
       \o vs

\* the name is the expected one over the version string set_version stored
NameOverStoredVersion ==
    /\ locals.name = ExpectedName(env["CLOUD_RELEASE_VERSION"])
    /\ env["CLOUD_BUILD_NAME"] = locals.name

StepsInvoked == [i \in 1..Len(calls) |-> calls[i].step]

\* C15: the downstream steps are invoked in the order fai, tar, manifest,
\* each at most once; the manifest step is invoked only after packaging has
\* returned and is given exactly the digest packaging returned; when a step
\* fails no later step is invoked and the failure is what __call__ raises.
C15_DownstreamOrder ==
    /\ \E n \in 0..3 : StepsInvoked = SubSeq(<<"fai", "tar", "manifest">>, 1, n)
    /\ Len(calls) = 3 =>
          /\ calls[2].returned # None
          /\ calls[3].digests = <<calls[2].returned.str>>
    /\ raised.exc = "DownstreamError" =>
          /\ pc = "failed"
          /\ calls # <<>>
          /\ calls[Len(calls)].step = raised.step
    /\ pc = "done" => Len(calls) = 3 /\ raised = NoError
    /\ pc \in {"tar", "manifest"} => raised = NoError

\* all three steps have run, packaging having returned the digest sha-b
C15_Witness ==
    /\ pc = "done"
    /\ StepsInvoked = <<"fai", "tar", "manifest">>
    /\ calls[2].returned = Str("sha-b")
    /\ calls[3].digests = <<"sha-b">>

(***************************************************************************)
(* C16 (lines 227-248)                                                     *)
(***************************************************************************)
\* the names each registry of the configuration holds
ValidNames ==
    [ARCH |-> <<"amd64", "arm64">>, VENDOR |-> <<"azure", "ec2">>, RELEASE |-> <<"bookworm">>]
GivenName ==
    [ARCH |-> args.arch_name, VENDOR |-> args.vendor_name, RELEASE |-> args.release_name]
UnknownDimensions == {d \in DOMAIN ValidNames : GivenName[d] \notin Range(ValidNames[d])}

\* every valid name of the dimension occurs in the message
NamesAll(message, names) ==
    \A i \in 1..Len(names) :
        \E p \in 1..(Len(message) - Len(names[i]) + 1) :
            SubSeq(message, p, p + Len(names[i]) - 1) = names[i]

\* C16: when the release, vendor or architecture name is not in its registry
\* the command fails with an ArgumentError on an unknown dimension whose
\* message names every valid value of that dimension, and nothing else has
\* happened: no Check object, no class, no env or info entry, no downstream
\* step constructed or invoked; when all three names are known no such
\* error is raised.
C16_UnknownNameFails ==
    pc # "lookup" =>
        IF UnknownDimensions # {}
        THEN /\ pc = "failed"
             /\ raised.exc = "ArgumentError"
             /\ raised.argument \in UnknownDimensions
             /\ NamesAll(raised.message, ValidNames[raised.argument])
             /\ raised.message =
                   "invalid value: " \o GivenName[raised.argument] \o ", select one of "
                      \o (IF raised.argument = "ARCH" THEN "amd64, arm64"
                          ELSE IF raised.argument = "VENDOR" THEN "azure, ec2"
                          ELSE "bookworm")
             /\ classes = <<>> /\ env = EmptyDict /\ info = EmptyDict /\ attr = EmptyDict
             /\ self = EmptyDict
             /\ calls = <<>>
        ELSE raised.exc # "ArgumentError"

\* the command has failed on the unknown vendor gce
C16_Witness ==
    /\ pc = "failed"
    /\ args.vendor_name = "gce"
    /\ args.arch_name = "amd64"
    /\ raised.exc = "ArgumentError"
    /\ raised.argument = "VENDOR"
    /\ raised.message = "invalid value: gce, select one of azure, ec2"

(***************************************************************************)
(* C17 (lines 83-85)                                                       *)
(***************************************************************************)
\* C17: Classes.discard of a tag that is not in the accumulator fails with an
\* error and leaves the sequence as it was; discard of a tag that is there
\* removes its first occurrence and nothing else, the other elements keeping
\* their order.
C17_DiscardFirstOccurrence ==
    [][(last'.op = "discard" /\ n_calls' = n_calls + 1) =>
          IF last'.arg \in Range(classes)
          THEN /\ raised' = NoError
               /\ Len(classes') = Len(classes) - 1
               /\ \E i \in 1..Len(classes) :
                     /\ classes[i] = last'.arg
                     /\ \A k \in 1..(i - 1) : classes[k] # last'.arg
                     /\ \A k \in 1..Len(classes') :
                           classes'[k] = IF k < i THEN classes[k] ELSE classes[k + 1]
          ELSE /\ raised' # NoError
               /\ classes' = classes]_vars

\* DEBIAN, added a second time, has just been discarded: the first of the
\* two is gone
C17_Witness ==
    /\ last = Op("discard", "DEBIAN")
    /\ n_calls = 2
    /\ raised = NoError
    /\ classes = <<"CLOUD", "DEBIAN">>

(***************************************************************************)
(* C20 (lines 96-139, 79-81)                                               *)
(***************************************************************************)
IsPrefix(s, t) == Len(s) <= Len(t) /\ SubSeq(t, 1, Len(s)) = s

\* C20: across every call of set_type, set_release, set_vendor, set_arch,
\* add and check the class sequence before is a prefix of the sequence after;
\* set_version leaves the class sequence unchanged; set_type, set_release and
\* set_arch leave the environment unchanged; check leaves the environment and
\* the metadata unchanged.
C20_AppendOnlyAndFrames ==
    [][n_calls' = n_calls + 1 =>
          /\ last'.op \in {"set_type", "set_release", "set_vendor", "set_arch", "add", "check"}
                => IsPrefix(classes, classes')
          /\ last'.op = "set_version" => classes' = classes
          /\ last'.op \in {"set_type", "set_release", "set_arch"} => env' = env
          /\ last'.op = "check" => env' = env /\ info' = info]_vars

\* check() has returned on a resolver that was given a release, a vendor, an
\* architecture and the LOCALDEBS tag
C20_Witness ==
    /\ last = Op("check", None)
    /\ raised = NoError
    /\ n_calls = 5
    /\ "LOCALDEBS" \in Range(classes)
    /\ classes[Len(classes)] = "LAST"
    /\ "CLOUD_RELEASE_ID" \in DOMAIN env

(***************************************************************************)
(* C18 (lines 96-99, 118-132)                                              *)
(***************************************************************************)
\* C18: in every state of the resolver in which a version has been computed,
\* calls of set_type or set_vendor made after set_version included, the
\* stored version strings, the platform-specific one when there is one, are
\* the renderings of the templates of the build type recorded in that state.
C18_VersionOfRecordedType ==
    ("version" \in DOMAIN attr /\ "type" \in DOMAIN attr) =>
        /\ IsVersionOf(attr["version"], attr["type"].name, args.version, args.version_date)
        /\ env["CLOUD_RELEASE_VERSION"] = attr["version"]
        /\ info["version"] = attr["version"]
        /\ "version_azure" \in DOMAIN attr =>
              IsAzureVersionOf(attr["version_azure"], attr["type"].name,
                               args.version, args.version_date)
        /\ "CLOUD_RELEASE_VERSION_AZURE" \in DOMAIN env =>
              /\ IsAzureVersionOf(env["CLOUD_RELEASE_VERSION_AZURE"], attr["type"].name,
                                  args.version, args.version_date)
              /\ info["version_azure"] = env["CLOUD_RELEASE_VERSION_AZURE"]

(***************************************************************************)
(* C19 (lines 96-132, 267-296)                                             *)
(***************************************************************************)
\* the positions of the double quotes of s between lo and hi, in order
RECURSIVE QuotesIn(_, _, _)
QuotesIn(s, lo, hi) ==
    IF lo > hi THEN <<>>
    ELSE IF lo = hi THEN (IF Char(s, lo) = "\"" THEN <<lo>> ELSE <<>>)
    ELSE QuotesIn(s, lo, (lo + hi) \div 2) \o QuotesIn(s, (lo + hi) \div 2 + 1, hi)

\* reading a JSON object of strings back: every four quotes delimit a key and
\* its value
JsonLoads(s) ==
    LET q == QuotesIn(s, 1, Len(s))
        key(j) == SubSeq(s, q[4 * j - 3] + 1, q[4 * j - 2] - 1)
        value(j) == SubSeq(s, q[4 * j - 1] + 1, q[4 * j] - 1)
        pairs == 1..(Len(q) \div 4)
    IN  [k \in {key(j) : j \in pairs} |-> value(CHOOSE j \in pairs : key(j) = k)]

\* the resolver has been finalized: check() has returned
FullyResolved == Finalized \/ raised.exc = "DownstreamError"

\* C19: after full resolution the environment and the metadata agree on the
\* vendor, the version and, when present, the platform-specific version; the
\* metadata keys are exactly type, release, release_id, release_baseid,
\* vendor, arch, build_id, version, plus version_azure for azure only; and
\* the metadata decoded from CLOUD_BUILD_INFO is the metadata mapping the
\* manifest step is given.
C19_EnvInfoConsistent ==
    FullyResolved =>
        /\ DOMAIN info =
              {"type", "release", "release_id", "release_baseid", "vendor", "arch",
               "build_id", "version"}
                 \cup (IF args.vendor_name = "azure" THEN {"version_azure"} ELSE {})
        /\ env["CLOUD_RELEASE_ID"] = info["vendor"]
        /\ env["CLOUD_RELEASE_VERSION"] = info["version"]
        /\ "CLOUD_RELEASE_VERSION_AZURE" \in DOMAIN env <=> "version_azure" \in DOMAIN info
        /\ "version_azure" \in DOMAIN info =>
              env["CLOUD_RELEASE_VERSION_AZURE"] = info["version_azure"]
        /\ "CLOUD_BUILD_INFO" \in DOMAIN env =>
              JsonLoads(env["CLOUD_BUILD_INFO"]) = info
        /\ \A i \in 1..Len(calls) :
              calls[i].step = "manifest" =>
                 calls[i].info = JsonLoads(env["CLOUD_BUILD_INFO"])

\* an official azure build whose manifest step has been given the metadata
C19_Witness ==
    /\ pc = "done"
    /\ args.vendor_name = "azure"
    /\ args.build_type.name = "official"
    /\ Len(calls) = 3
    /\ calls[3].info["version_azure"] = "0.20241231.11"
    /\ JsonLoads(env["CLOUD_BUILD_INFO"])["version_azure"] = "0.20241231.11"
    /\ env["CLOUD_RELEASE_ID"] = "azure"

====
